---------------------------- MODULE Spec2Model ----------------------------
(***************************************************************************)
(* A model of the firemyna development server (`firemyna dev`).            *)
(*                                                                         *)
(* The state is the state of Dev.run() in src/cli/commands/dev/index.ts:   *)
(* the function list, the map of incremental builds, the init build, the   *)
(* child-process list and the exiting flag, together with the environment  *)
(* the code reacts to: the files of the functions directory, the output    *)
(* files written so far, the esbuild builds in flight and the child        *)
(* processes.  Strings the code takes apart (paths, file names, function   *)
(* names) are sequences of one-character strings, so that path parsing and *)
(* the regular expressions are computed, not assumed.                      *)
(***************************************************************************)
EXTENDS Naturals, Integers, Sequences, FiniteSets, TLC

(***************************************************************************)
(* Bounds of the model.                                                    *)
(***************************************************************************)
\* how many termination signals the environment delivers
MaxSignals == 2
\* how many notifications the file watcher and the dependency watcher deliver
MaxEvents == 2
\* how many function files exist when the server starts
MaxInitialFiles == 1
\* how many entries the functions directory has when only the watcher is studied
MaxWatchFiles == 2
\* how many functions a list handed to stringifyFunctionsIndex has
MaxListLen == 3

(***************************************************************************)
(* Strings as sequences of characters.                                     *)
(***************************************************************************)
Range(s) == {s[i] : i \in 1..Len(s)}

EndsWith(s, suf) ==
  /\ Len(s) >= Len(suf)
  /\ SubSeq(s, Len(s) - Len(suf) + 1, Len(s)) = suf

StartsWith(s, pre) ==
  /\ Len(s) >= Len(pre)
  /\ SubSeq(s, 1, Len(pre)) = pre

\* the greatest position of character ch in s, 0 when there is none
LastIndexOfChar(s, ch) ==
  LET hits == {i \in 1..Len(s) : s[i] = ch}
  IN  IF hits = {} THEN 0 ELSE CHOOSE i \in hits : \A j \in hits : j <= i

\* Array.prototype.indexOf, zero-based, -1 when x is no element
IndexOf(arr, x) ==
  LET hits == {i \in 1..Len(arr) : arr[i] = x}
  IN  IF hits = {} THEN -1
      ELSE (CHOOSE i \in hits : \A j \in hits : i <= j) - 1

\* Array.prototype.splice(start, 1): removes one element at the zero-based
\* index start; a negative start counts from the end of the array
Splice1(arr, start) ==
  LET n   == Len(arr)
      pos == IF start < 0
               THEN (IF n + start < 0 THEN 0 ELSE n + start)
               ELSE (IF start > n THEN n ELSE start)
  IN  IF pos >= n THEN arr
      ELSE SubSeq(arr, 1, pos) \o SubSeq(arr, pos + 2, n)

(***************************************************************************)
(* Node's path module (posix), on paths relative to the working directory. *)
(* buildConfig.cwd and process.cwd() are the same directory here, and a    *)
(* path relative to it stands for the absolute path resolve(cwd, path).    *)
(***************************************************************************)
RECURSIVE SplitPath(_)
\* the segments of a path, split at "/"
SplitPath(p) ==
  LET cut == {i \in 1..Len(p) : p[i] = "/"}
  IN  IF cut = {} THEN <<p>>
      ELSE LET i == CHOOSE k \in cut : \A j \in cut : k <= j
           IN  <<SubSeq(p, 1, i - 1)>> \o SplitPath(SubSeq(p, i + 1, Len(p)))

RECURSIVE JoinPath(_)
\* segments joined with "/"
JoinPath(segs) ==
  IF segs = <<>> THEN <<>>
  ELSE IF Len(segs) = 1 THEN segs[1]
  ELSE segs[1] \o <<"/">> \o JoinPath(Tail(segs))

RECURSIVE NormalizeSegs(_, _)
\* drops empty and "." segments and resolves ".." against the segment before
NormalizeSegs(segs, acc) ==
  IF segs = <<>> THEN acc
  ELSE LET h == Head(segs)
       IN  IF h = <<>> \/ h = <<".">> THEN NormalizeSegs(Tail(segs), acc)
           ELSE IF h = <<".", ".">> /\ acc # <<>> /\ acc[Len(acc)] # <<".", ".">>
             THEN NormalizeSegs(Tail(segs), SubSeq(acc, 1, Len(acc) - 1))
           ELSE NormalizeSegs(Tail(segs), Append(acc, h))

\* path.normalize of a relative path
normalize(p) ==
  LET segs == NormalizeSegs(SplitPath(p), <<>>)
  IN  IF segs = <<>> THEN <<".">> ELSE JoinPath(segs)

RECURSIVE CommonPrefixLen(_, _)
CommonPrefixLen(a, b) ==
  IF a = <<>> \/ b = <<>> \/ Head(a) # Head(b) THEN 0
  ELSE 1 + CommonPrefixLen(Tail(a), Tail(b))

\* path.relative(from, to): up from `from` to the common ancestor, then down
relative(from, to) ==
  LET f  == NormalizeSegs(SplitPath(from), <<>>)
      t  == NormalizeSegs(SplitPath(to), <<>>)
      k  == CommonPrefixLen(f, t)
      up == [i \in 1..(Len(f) - k) |-> <<".", ".">>]
  IN  JoinPath(up \o SubSeq(t, k + 1, Len(t)))

\* path.resolve(cwd, ...segments) as a path relative to cwd
resolve(segs) == normalize(JoinPath(segs))

\* path.parse: dir is what precedes the last "/", base what follows it; ext
\* starts at the last "." of base unless that is its first character
parsePath(p) ==
  LET slash == LastIndexOfChar(p, "/")
      dir   == IF slash = 0 THEN <<>> ELSE SubSeq(p, 1, slash - 1)
      base  == SubSeq(p, slash + 1, Len(p))
      dot   == LastIndexOfChar(base, ".")
      noExt == dot <= 1 \/ base = <<".", ".">>
      ext   == IF noExt THEN <<>> ELSE SubSeq(base, dot, Len(base))
      name  == IF noExt THEN base ELSE SubSeq(base, 1, dot - 1)
  IN  [dir |-> dir, base |-> base, ext |-> ext, name |-> name]

(***************************************************************************)
(* The strings of the model.                                               *)
(***************************************************************************)
DotTs  == <<".", "t", "s">>
DotJs  == <<".", "j", "s">>
DotTsx == <<".", "t", "s", "x">>
DotJsx == <<".", "j", "s", "x">>
DotCjs == <<".", "c", "j", "s">>
IndexStem == <<"i", "n", "d", "e", "x">>
\* buildConfig.paths.functions.src
SrcDir == <<"s">>
\* the files that may exist in the functions directory
FileA      == <<"s", "/", "a", ".", "t", "s">>
FileAIndex == <<"s", "/", "a", "/">> \o IndexStem \o DotTs
FileB      == <<"s", "/", "b", ".", "t", "s">>
FileInit   == <<"s", "/", "i", ".", "t", "s">>
FsUniverse == {FileA, FileAIndex, FileB, FileInit}
\* further paths the watcher and the classifier can be given: the index file
\* of the functions directory itself, an index file two directories down, a
\* file that is no script, a file next to a function's index file, and the
\* index file of a directory with a dot in its name
FileRootIndex == <<"s", "/">> \o IndexStem \o DotTs
FileDeep      == <<"s", "/", "a", "/", "b", "/">> \o IndexStem \o DotTs
FileDoc       == <<"s", "/", "n", ".", "m", "d">>
FileHelper    == <<"s", "/", "a", "/", "h", ".", "t", "s">>
FileDotted    == <<"s", "/", "c", ".", "d", "/">> \o IndexStem \o DotTs
WatchPaths == FsUniverse \cup {FileRootIndex, FileDeep, FileDoc, FileHelper, FileDotted}
\* the directories of WatchPaths below the functions directory
WatchDirs == {<<"s", "/", "a">>, <<"s", "/", "c", ".", "d">>}
\* the names readdir can return, in the order it lists them
DirOrder == << <<"a">>, <<"a", ".", "t", "s">>, <<"b">>, <<"b", ".", "t", "s">>,
               <<"c", ".", "d">>, <<"h", ".", "t", "s">>,
               <<"i", ".", "t", "s">>, IndexStem \o DotTs, <<"n", ".", "m", "d">> >>
\* the output files of the init module and of the index
InitCjs  == <<"i", "n", "i", "t">> \o DotCjs
IndexCjs == IndexStem \o DotCjs

(***************************************************************************)
(* The filesystem: a set of files (paths relative to cwd); a directory     *)
(* exists when a file lies under it.                                       *)
(***************************************************************************)
IsDirectory(files, p) == \E f \in files : StartsWith(f, p \o <<"/">>)

Exists(files, p) == p \in files \/ IsDirectory(files, p)

\* fs.readdir: the names of the children of directory dir, in listing order
Readdir(files, dir) ==
  SelectSeq(DirOrder, LAMBDA n : Exists(files, dir \o <<"/">> \o n))

(***************************************************************************)
(* src/functions: discovery, classification, inclusion, the index text.    *)
(***************************************************************************)
\* /^index\.[tj]sx?$/
indexRegExp(str) ==
  str \in {IndexStem \o e : e \in {DotTs, DotJs, DotTsx, DotJsx}}

\* /^.+\.[tj]sx?$/ : a recognised extension after at least one character
fnRegExp(str) ==
  \E e \in {DotTs, DotJs, DotTsx, DotJsx} : EndsWith(str, e) /\ Len(str) > Len(e)

\* an absent optional string (undefined)
Undefined == <<>>
\* an absent function (undefined where a FiremynaFunction is expected)
NoFunction == [name |-> Undefined, path |-> Undefined]

isInitPath(functionsInitPath, path) ==
  /\ functionsInitPath # Undefined
  /\ normalize(path) = normalize(functionsInitPath)

\* a mutant of includedFunction: the init path is not excluded
includedFunctionWithInit(cfg, fn) ==
  /\ ~(\E regex \in cfg.functionsIgnorePaths : fn.path \in regex)
  /\ (~cfg.onlyFunctions.defined \/ fn.name \in Range(cfg.onlyFunctions.list))

includedFunction(cfg, fn) ==
  /\ ~isInitPath(cfg.functionsInitPath, fn.path)
  /\ ~(\E regex \in cfg.functionsIgnorePaths : fn.path \in regex)
  /\ (~cfg.onlyFunctions.defined \/ fn.name \in Range(cfg.onlyFunctions.list))

\* the path of the function file at `path`, Undefined when there is none
findFunctionPath(files, path) ==
  IF IsDirectory(files, path)
    THEN LET idx == SelectSeq(Readdir(files, path), indexRegExp)
         IN  IF idx = <<>> THEN Undefined
             ELSE relative(<<".">>, resolve(<<path, idx[1]>>))
  ELSE IF fnRegExp(path) THEN relative(<<".">>, path)
  ELSE Undefined

RECURSIVE ListItems(_, _, _)
\* the map over the directory listing, swept of undefined
ListItems(cfg, files, dir) ==
  IF dir = <<>> THEN <<>>
  ELSE LET itemPath == Head(dir)
           fullPath == resolve(<<SrcDir, itemPath>>)
           path     == findFunctionPath(files, fullPath)
           fn       == [name |-> parsePath(itemPath).name, path |-> path]
           rest     == ListItems(cfg, files, Tail(dir))
       IN  IF path # Undefined /\ includedFunction(cfg, fn)
             THEN <<fn>> \o rest
             ELSE rest

listFunctions(cfg, files) == ListItems(cfg, files, Readdir(files, SrcDir))

\* listFunctions rejects: stat (or readdir) throws for a child of the
\* functions directory, the mapped promise rejects and so does Promise.all
listFunctionsRejects(files, bad) ==
  \E i \in 1..Len(Readdir(files, SrcDir)) :
    resolve(<<SrcDir, Readdir(files, SrcDir)[i]>>) \in bad

\* a mutant of parseFunction: an index file is accepted at any depth
parseFunctionAnyDepth(functionPath) ==
  LET path         == relative(<<".">>, functionPath)
      relativePath == relative(resolve(<<SrcDir>>), functionPath)
      parsedPath   == parsePath(relativePath)
  IN  IF parsedPath.dir # <<>>
        THEN IF indexRegExp(parsedPath.base)
               THEN [name |-> parsedPath.dir, path |-> path]
               ELSE NoFunction
      ELSE IF fnRegExp(parsedPath.base)
        THEN [name |-> parsedPath.name, path |-> path]
      ELSE NoFunction

\* the function a watched path stands for, NoFunction when it is none
parseFunction(functionPath) ==
  LET path         == relative(<<".">>, functionPath)
      relativePath == relative(resolve(<<SrcDir>>), functionPath)
      parsedPath   == parsePath(relativePath)
  IN  IF parsedPath.dir # <<>>
        THEN IF parsePath(parsedPath.dir).dir = <<>> /\ indexRegExp(parsedPath.base)
               THEN [name |-> parsedPath.dir, path |-> path]
               ELSE NoFunction
      ELSE IF fnRegExp(parsedPath.base)
        THEN [name |-> parsedPath.name, path |-> path]
      ELSE NoFunction

\* the messages of the watch callback
InitialMessage(fns) ==
  [type |-> "initial", event |-> "none", function |-> NoFunction, functions |-> fns]
InitMessage(event) ==
  [type |-> "init", event |-> event, function |-> NoFunction, functions |-> <<>>]
FunctionMessage(event, fn) ==
  [type |-> "function", event |-> event, function |-> fn, functions |-> <<>>]

\* the events the switch of watcher.on("all") has a case for
RoutedEvents == {"add", "change", "unlink"}
\* the events it has none for
OtherEvents == {"addDir", "unlinkDir", "ready"}

\* the value of `fn` in watcher.on("all"): parseFunction is called for a
\* routed event on a path that is not the init path
classified(cfg, event, path) ==
  IF event \in RoutedEvents /\ ~isInitPath(cfg.functionsInitPath, path)
    THEN parseFunction(path)
    ELSE NoFunction

\* a mutant of watcherOnAll: the inclusion policy is not asked
watcherOnAllNoPolicy(cfg, event, path) ==
  IF event \notin RoutedEvents THEN <<>>
  ELSE IF isInitPath(cfg.functionsInitPath, path) THEN <<InitMessage(event)>>
  ELSE LET fn == parseFunction(path)
       IN  IF fn = NoFunction THEN <<>>
           ELSE <<FunctionMessage(event, fn)>>

\* watcher.on("all", (event, path) => ...): the messages it passes to the
\* callback for one notification
watcherOnAll(cfg, event, path) ==
  IF event \notin RoutedEvents THEN <<>>
  ELSE IF isInitPath(cfg.functionsInitPath, path) THEN <<InitMessage(event)>>
  ELSE LET fn == parseFunction(path)
       IN  IF fn = NoFunction \/ ~includedFunction(cfg, fn) THEN <<>>
           ELSE <<FunctionMessage(event, fn)>>

\* a mutant of stringifyFunctionsIndex: the init module is always imported
stringifyFunctionsIndexInit(list, cfg) ==
  << <<"import \"./init.cjs\";">> >>
  \o [i \in 1..Len(list) |->
        <<"export { default as ">> \o list[i].name \o <<" } from \"./">>
          \o list[i].name \o <<".cjs\";">>]
  \o (IF cfg.renderer THEN << <<"export { default as renderer } from \"./renderer\";">> >>
      ELSE <<>>)

\* the lines of the index; the text is these joined with "\n"
stringifyFunctionsIndex(list, cfg) ==
  (IF cfg.functionsInitPath # Undefined THEN << <<"import \"./init.cjs\";">> >> ELSE <<>>)
  \o [i \in 1..Len(list) |->
        <<"export { default as ">> \o list[i].name \o <<" } from \"./">>
          \o list[i].name \o <<".cjs\";">>]
  \o (IF cfg.renderer THEN << <<"export { default as renderer } from \"./renderer\";">> >>
      ELSE <<>>)

Names(list) == {list[i].name : i \in 1..Len(list)}

\* stringifyFunctionsIndex has not been called
NoCall == [list |-> <<>>, initPath |-> Undefined, renderer |-> FALSE,
           called |-> FALSE, text |-> <<>>]

(***************************************************************************)
(* src/esbuild/resolve: the resolve plugin.  Paths are absolute here, as   *)
(* esbuild passes them.                                                    *)
(***************************************************************************)
\* String.prototype.includes
Includes(str, sub) ==
  \E i \in 1..(Len(str) - Len(sub) + 1) : SubSeq(str, i, i + Len(sub) - 1) = sub

NodeModules == <<"n", "o", "d", "e", "_", "m", "o", "d", "u", "l", "e", "s">>

\* builtinModules of node's "module", two of them
BuiltinModules == {<<"f", "s">>, <<"o", "s">>}

\* the directory of the importing file and the project's package directory
ResolveDir == <<"/", "p", "/", "s">>
PackagesDir == <<"/", "p", "/">> \o NodeModules

\* the files a project may hold: two scripts of one stem, a script with
\* node_modules in its name, an installed package, and an installed package
\* whose name starts with the name of a builtin module
ModuleFiles ==
  { ResolveDir \o <<"/", "u">> \o DotTs,
    ResolveDir \o <<"/", "u">> \o DotJs,
    ResolveDir \o <<"/">> \o NodeModules \o <<"_", "x">> \o DotTs,
    PackagesDir \o <<"/", "l", "o", "/">> \o IndexStem \o DotJs,
    PackagesDir \o <<"/", "f", "s", "-", "x", "/">> \o IndexStem \o DotJs }

\* the specifiers imported: builtin modules, packages, relative paths
Specifiers ==
  { <<"f", "s">>, <<"o", "s">>, <<"f", "s", "-", "x">>, <<"l", "o">>,
    <<".", "/", "u">>, <<".", "/">> \o NodeModules \o <<"_", "x">>,
    <<".", "/", "m">> }

RECURSIVE Ancestors(_)
\* a directory and the directories above it, nearest first, <<>> the root
Ancestors(dir) ==
  IF dir = <<>> THEN << <<>> >>
  ELSE <<dir>> \o Ancestors(parsePath(dir).dir)

\* the first path of a list that is a file, Undefined when none is
FirstFile(files, candidates) ==
  LET found == SelectSeq(candidates, LAMBDA c : c \in files)
  IN  IF found = <<>> THEN Undefined ELSE found[1]

\* resolver.resolve of enhanced-resolve as the plugin configures it: a
\* relative specifier is the file itself or the file with one of the
\* extensions, in their order; a package is looked for in the node_modules
\* of the directory and of the directories above.  Undefined for an error.
resolverResolve(files, resolveDir, path) ==
  IF StartsWith(path, <<".", "/">>)
    THEN LET base == resolveDir \o <<"/">> \o SubSeq(path, 3, Len(path))
         IN  FirstFile(files, <<base, base \o DotJs, base \o DotTs,
                                base \o DotJsx, base \o DotTsx>>)
    ELSE LET dirs == Ancestors(resolveDir)
         IN  FirstFile(files,
               [i \in 1..Len(dirs) |->
                  dirs[i] \o <<"/">> \o NodeModules \o <<"/">> \o path
                    \o <<"/">> \o IndexStem \o DotJs])

\* the result of the onResolve callback: settled is "resolved" with path and
\* external, or "rejected" with the error's message; asked tells whether
\* resolver.resolve was called
onResolve(files, resolveDir, path) ==
  IF \E module \in BuiltinModules : StartsWith(path, module)
    THEN [settled |-> "resolved", path |-> path, external |-> TRUE,
          asked |-> FALSE, error |-> <<>>]
  ELSE LET resolved == resolverResolve(files, resolveDir, path)
       IN  IF resolved = Undefined
             THEN [settled |-> "rejected", path |-> <<>>, external |-> FALSE,
                   asked |-> TRUE,
                   error |-> <<"Can't resolve '">> \o path \o <<"' in '">>
                               \o resolveDir \o <<"'">>]
             ELSE [settled |-> "resolved", path |-> resolved,
                   external |-> Includes(resolved, NodeModules),
                   asked |-> TRUE, error |-> <<>>]

\* onResolve has not been called
NoResolution ==
  [called |-> FALSE, files |-> {}, resolveDir |-> <<>>, specifier |-> <<>>,
   result |-> [settled |-> "none", path |-> <<>>, external |-> FALSE,
               asked |-> FALSE, error |-> <<>>]]

(***************************************************************************)
(* The state.                                                              *)
(***************************************************************************)
VARIABLES
  config,     \* the resolved build configuration (never changes)
  fs,         \* the files that exist under the working directory
  subscribed, \* whether watchListFunction has delivered Initial
  functions,  \* let functions: FiremynaFunction[]
  builds,     \* const builds: Record<string, BuildIncremental>, name -> handle
  initBuild,  \* let initBuild: the handle of the init build, 0 for undefined
  watched,    \* the units watchDeps follows (onBuild adds, onStop removes)
  written,    \* the output files written so far, file name -> content
  tasks,      \* the esbuild builds and file writes in flight
  nextId,     \* the next task (and handle) identifier
  initial,    \* the Promise.all of the Initial handler
  handles,    \* the incremental-build handles acquired and not disposed
  failed,     \* the tasks whose build was rejected so far
  exiting,    \* let exiting
  children,   \* const children: the live child processes, in spawn order
  childState, \* each child process: "unspawned", "live" or "exited"
  kills,      \* how many signals child.kill has sent to each child
  procState,  \* the supervising process: "running", "exited" (status 0) or
              \* "crashed" (an unhandled rejection ended it)
  signals,    \* termination signals received so far
  events,     \* notifications the two watchers have delivered so far
  unreadable, \* the children of the functions directory that stat or readdir
              \* fails on (a dangling link, a directory without permission)
  listing,    \* the first listFunctions: "pending", "resolved" or "rejected"
  notified,   \* the notifications chokidar has passed to watcher.on("all")
  messages,   \* the messages passed to the watch callback, in order
  rendered,   \* the last call of stringifyFunctionsIndex and what it returned
  resolution  \* the last call of the resolve plugin's onResolve and its result

buildVars == <<functions, builds, initBuild, watched, written, tasks, nextId,
               initial, handles, failed>>
supVars   == <<exiting, children, childState, kills, signals>>
watchVars == <<unreadable, listing, notified, messages, rendered, resolution>>
envVars   == <<config, fs, subscribed, events, watchVars>>
vars      == <<buildVars, supVars, envVars, procState>>

\* the child of the framework preset (astro, cra, vite, remix, next) and the
\* emulator child the Initial handler spawns
PresetChild   == "preset"
FirebaseChild == "firebase"
Children == {PresetChild, FirebaseChild}

(***************************************************************************)
(* The process supervisor: addChild, exitIfNoChildren, the signal handlers.*)
(***************************************************************************)
\* children.push(child)
addChild(list, child) == Append(list, child)

\* a mutant of removeChild: splice(-1, 1), what the listener would do for a
\* child indexOf does not find
removeChildLast(list, child) == Splice1(list, -1)

\* the child's "exit" listener: children.splice(children.indexOf(child), 1)
removeChild(list, child) == Splice1(list, IndexOf(list, child))

\* a mutant of exitIfNoChildren: the length test is lost
exitAlways(list) == "exited"

\* exitIfNoChildren: process.exit(0) when no child is left
exitIfNoChildren(list) == IF Len(list) = 0 THEN "exited" ELSE "running"

\* children.forEach((child) => child.kill(signal))
forwardSignal(list, k) ==
  [c \in Children |-> IF c \in Range(list) THEN k[c] + 1 ELSE k[c]]

\* process.on(signal, ...): a termination signal arrives
Signal ==
  /\ procState = "running"
  /\ signals < MaxSignals
  /\ signals' = signals + 1
  /\ exiting' = TRUE
  /\ procState' = exitIfNoChildren(children)
  /\ kills' = IF procState' = "exited" THEN kills ELSE forwardSignal(children, kills)
  /\ UNCHANGED <<children, childState, buildVars, envVars>>

\* child.on("exit", ...): a live child exits, with any exit code
ChildExit(c) ==
  /\ procState = "running"
  /\ childState[c] = "live"
  /\ childState' = [childState EXCEPT ![c] = "exited"]
  /\ children' = removeChild(children, c)
  /\ procState' = IF exiting THEN exitIfNoChildren(children') ELSE "running"
  /\ UNCHANGED <<exiting, kills, signals, buildVars, envVars>>

(***************************************************************************)
(* The build units.  A task is one asynchronous call in flight: it awaits  *)
(* esbuild (phase "compile"), then writeEsbuildFile (phase "write").  Its  *)
(* identifier also names the incremental handle a first build returns.     *)
(***************************************************************************)
Task(id, kind, owner, name, handle, contents, src) ==
  [id |-> id, kind |-> kind, owner |-> owner, name |-> name,
   handle |-> handle, contents |-> contents, src |-> src, phase |-> "compile"]

\* startBuilding(fn) up to its await of incrementalBuild; src tells whether
\* the entry file exists for esbuild to read
startBuilding(id, fn, owner, files) ==
  Task(id, "startBuilding", owner, fn.name, 0, <<>>, fn.path \in files)

\* startBuildingInit() up to its await of incrementalBuildInit
startBuildingInit(id, owner, cfg, files) ==
  Task(id, "startBuildingInit", owner, InitCjs, 0, <<>>,
       cfg.functionsInitPath \in files)

\* buildIndex() up to its await of buildFile: the index text is rendered from
\* the function list as it is at the call
buildIndex(id, owner, list, cfg) ==
  Task(id, "buildIndex", owner, IndexCjs, 0, stringifyFunctionsIndex(list, cfg), TRUE)

\* builds[name]?.rebuild() / initBuild?.rebuild() on handle h
rebuild(id, kind, name, h) == Task(id, kind, "none", name, h, <<>>, TRUE)

\* the file a task's build is written to (the outfile of its buildFile call)
OutFile(t) ==
  CASE t.kind \in {"startBuildingInit", "initChange"} -> InitCjs
    [] t.kind = "buildIndex" -> IndexCjs
    [] OTHER -> t.name \o DotCjs

\* what writeEsbuildFile(build) leaves in the file: the index text, or the
\* bundle of the handle that was (re)built
Content(t) ==
  [by |-> t.id,
   handle |-> IF t.kind \in {"startBuilding", "startBuildingInit"} THEN t.id
              ELSE t.handle,
   text |-> t.contents]

\* writeEsbuildFile(build): the written files after task t's write
writeEsbuildFile(files, t) ==
  [f \in DOMAIN files \cup {OutFile(t)} |->
     IF f = OutFile(t) THEN Content(t) ELSE files[f]]

\* builds[name] = build
SetBuild(bs, name, h) ==
  [n \in DOMAIN bs \cup {name} |-> IF n = name THEN h ELSE bs[n]]

\* delete builds[name]
DeleteBuild(bs, name) == [n \in DOMAIN bs \ {name} |-> bs[n]]

\* a rejected promise nobody handles: Node either only warns or ends the
\* process, depending on its version and flags
Unhandled == procState' \in {"running", "crashed"}

\* watchListFunction: listFunctions, then callback({type: "initial"}); the
\* handler sets the function list and starts the init build, one build per
\* function and the index build
DeliverInitial ==
  /\ procState = "running"
  /\ ~subscribed
  /\ listing = "pending"
  /\ ~listFunctionsRejects(fs, unreadable)
  /\ subscribed' = TRUE
  /\ listing' = "resolved"
  /\ messages' = Append(messages, InitialMessage(listFunctions(config, fs)))
  /\ LET fns     == listFunctions(config, fs)
         off     == IF config.functionsInitPath # Undefined THEN 1 ELSE 0
         initTs  == IF off = 1 THEN {startBuildingInit(nextId, "initial", config, fs)}
                    ELSE {}
         fnTs    == {startBuilding(nextId + off + i - 1, fns[i], "initial", fs) :
                       i \in 1..Len(fns)}
         indexT  == buildIndex(nextId + off + Len(fns), "initial", fns, config)
         started == initTs \cup fnTs \cup {indexT}
     IN  /\ functions' = fns
         /\ tasks' = tasks \cup started
         /\ initial' = [state |-> "running", pending |-> {t.id : t \in started}]
         /\ nextId' = nextId + off + Len(fns) + 1
  /\ UNCHANGED <<failed, builds, initBuild, watched, written, handles,
                 supVars, procState, config, fs, events, unreadable, notified,
                 rendered, resolution>>

\* watchListFunction when its listFunctions rejects: the callback is never
\* called and no watcher is created; nothing handles the rejection
ListingFails ==
  /\ procState = "running"
  /\ listing = "pending"
  /\ listFunctionsRejects(fs, unreadable)
  /\ listing' = "rejected"
  /\ Unhandled
  /\ UNCHANGED <<buildVars, supVars, config, fs, subscribed, events, unreadable,
                 notified, messages, rendered, resolution>>

\* the build a task awaits succeeds: the code after the await runs up to the
\* call of writeEsbuildFile
CompileOk(t) ==
  /\ procState = "running"
  /\ t \in tasks
  /\ t.phase = "compile"
  /\ t.src
  /\ LET toWrite == (tasks \ {t}) \cup {[t EXCEPT !.phase = "write"]}
     IN
     \/ /\ t.kind = "startBuilding"
        /\ watched' = watched \cup {t.name}
        /\ builds' = SetBuild(builds, t.name, t.id)
        /\ handles' = handles \cup {t.id}
        /\ tasks' = toWrite
        /\ UNCHANGED initBuild
     \/ /\ t.kind = "startBuildingInit"
        /\ initBuild' = t.id
        /\ handles' = handles \cup {t.id}
        /\ watched' = watched \cup {InitCjs}
        /\ tasks' = toWrite
        /\ UNCHANGED builds
     \/ /\ t.kind = "buildIndex"
        /\ watched' = watched \cup {IndexCjs}
        /\ tasks' = toWrite
        /\ UNCHANGED <<builds, initBuild, handles>>
     \/ /\ t.kind = "fnChange"
        /\ tasks' = toWrite
        /\ UNCHANGED <<builds, initBuild, handles, watched>>
     \/ /\ t.kind = "initChange"
        /\ tasks' = IF initBuild # 0 THEN toWrite ELSE tasks \ {t}
        /\ UNCHANGED <<builds, initBuild, handles, watched>>
     \/ /\ t.kind = "deps"
        /\ watched' = watched \cup {t.name}
        /\ tasks' = toWrite
        /\ UNCHANGED <<builds, initBuild, handles>>
  /\ UNCHANGED <<failed, functions, written, nextId, initial, supVars,
                 envVars, procState>>

\* a mutant of FailedBuild: the output of the rejected build is written
FailedBuildWrites(t) ==
  /\ tasks' = tasks \ {t}
  /\ failed' = failed \cup {t}
  /\ written' = writeEsbuildFile(written, t)
  /\ UNCHANGED <<functions, builds, initBuild, watched, nextId, handles>>

\* what a rejected build changes: nothing but the task's own end
FailedBuild(t) ==
  /\ tasks' = tasks \ {t}
  /\ failed' = failed \cup {t}
  /\ UNCHANGED <<functions, builds, initBuild, watched, written, nextId, handles>>

\* the build a task awaits is rejected (a BuildError): the awaiting function
\* throws.  The index is generated text that always compiles.
CompileFail(t) ==
  /\ procState = "running"
  /\ t \in tasks
  /\ t.phase = "compile"
  /\ t.kind # "buildIndex"
  /\ FailedBuild(t)
  /\ IF t.owner = "initial"
       THEN /\ initial' = [state |-> "rejected", pending |-> initial.pending \ {t.id}]
            /\ IF initial.state = "running" THEN Unhandled ELSE UNCHANGED procState
       ELSE /\ UNCHANGED initial
            /\ Unhandled
  /\ UNCHANGED <<supVars, envVars>>

\* cp.spawn of the emulators and addChild(firebaseChild)
SpawnFirebase ==
  /\ children' = addChild(children, FirebaseChild)
  /\ childState' = [childState EXCEPT ![FirebaseChild] = "live"]
  /\ UNCHANGED <<exiting, kills, signals>>

\* a mutant of WriteDone: the Initial handler does not wait for all of its
\* builds, the emulator is spawned when the first of them is written
WriteDoneSpawnsEarly(t) ==
  /\ procState = "running"
  /\ t \in tasks
  /\ t.phase = "write"
  /\ written' = writeEsbuildFile(written, t)
  /\ \/ /\ t.owner = "initial"
        /\ tasks' = tasks \ {t}
        /\ initial' = [state |-> IF initial.state = "running" /\ initial.pending = {t.id}
                                   THEN "resolved" ELSE initial.state,
                       pending |-> initial.pending \ {t.id}]
        /\ IF childState[FirebaseChild] = "unspawned"
             THEN SpawnFirebase
             ELSE UNCHANGED supVars
        /\ UNCHANGED nextId
     \/ /\ t.owner = "add" \/ (t.owner = "initAdd" /\ initBuild # 0)
        /\ tasks' = (tasks \ {t}) \cup {buildIndex(nextId, "none", functions, config)}
        /\ nextId' = nextId + 1
        /\ UNCHANGED <<initial, supVars>>
     \/ /\ t.owner = "none" \/ (t.owner = "initAdd" /\ initBuild = 0)
        /\ tasks' = tasks \ {t}
        /\ UNCHANGED <<nextId, initial, supVars>>
  /\ UNCHANGED <<failed, functions, builds, initBuild, watched, handles,
                 envVars, procState>>

\* writeEsbuildFile resolves: the file is written and the code after the
\* await runs, to the handler's end or to its next await
WriteDone(t) ==
  /\ procState = "running"
  /\ t \in tasks
  /\ t.phase = "write"
  /\ written' = writeEsbuildFile(written, t)
  /\ \/ /\ t.owner = "initial"
        /\ tasks' = tasks \ {t}
        /\ initial' = [state |-> IF initial.state = "running" /\ initial.pending = {t.id}
                                   THEN "resolved" ELSE initial.state,
                       pending |-> initial.pending \ {t.id}]
        /\ IF initial'.state = "resolved" /\ initial.state = "running"
             THEN SpawnFirebase
             ELSE UNCHANGED supVars
        /\ UNCHANGED nextId
     \/ /\ t.owner = "add" \/ (t.owner = "initAdd" /\ initBuild # 0)
        /\ tasks' = (tasks \ {t}) \cup {buildIndex(nextId, "none", functions, config)}
        /\ nextId' = nextId + 1
        /\ UNCHANGED <<initial, supVars>>
     \/ /\ t.owner = "none" \/ (t.owner = "initAdd" /\ initBuild = 0)
        /\ tasks' = tasks \ {t}
        /\ UNCHANGED <<nextId, initial, supVars>>
  /\ UNCHANGED <<failed, functions, builds, initBuild, watched, handles,
                 envVars, procState>>

(***************************************************************************)
(* The watch callback: one handler per message the router delivers.  The   *)
(* router (watcher.on("all")) maps a notification for the init path to an  *)
(* init message and a notification for a path that parses to an included   *)
(* function to a function message.                                         *)
(***************************************************************************)
\* a mutant of FsChange: the watcher reports before Initial was delivered
FsChangeBeforeInitial(event, path) ==
  /\ procState = "running"
  /\ events < MaxEvents
  /\ events' = events + 1
  /\ CASE event = "add"    -> path \notin fs /\ fs' = fs \cup {path}
       [] event = "change" -> path \in fs /\ fs' = fs
       [] event = "unlink" -> path \in fs /\ fs' = fs \ {path}
       [] OTHER            -> fs' = fs
  /\ notified' = Append(notified, [event |-> event, path |-> path,
                                    fn |-> classified(config, event, path)])
  /\ messages' = messages \o watcherOnAll(config, event, path)
  /\ UNCHANGED <<config, subscribed, unreadable, listing, rendered, resolution>>

\* the filesystem change chokidar reports as `event` for `path`
FsChange(event, path) ==
  /\ procState = "running"
  /\ subscribed
  /\ events < MaxEvents
  /\ events' = events + 1
  /\ CASE event = "add"    -> path \notin fs /\ fs' = fs \cup {path}
       [] event = "change" -> path \in fs /\ fs' = fs
       [] event = "unlink" -> path \in fs /\ fs' = fs \ {path}
       [] OTHER            -> fs' = fs
  /\ notified' = Append(notified, [event |-> event, path |-> path,
                                    fn |-> classified(config, event, path)])
  /\ messages' = messages \o watcherOnAll(config, event, path)
  /\ UNCHANGED <<config, subscribed, unreadable, listing, rendered, resolution>>

\* the router sends a function message for this path
RoutesToFunction(path) ==
  /\ ~isInitPath(config.functionsInitPath, path)
  /\ parseFunction(path) # NoFunction
  /\ includedFunction(config, parseFunction(path))

\* case "function", "add": push, startBuilding, then buildIndex
OnFunctionAdd(path) ==
  /\ FsChange("add", path)
  /\ RoutesToFunction(path)
  /\ LET fn == parseFunction(path)
     IN  /\ functions' = Append(functions, fn)
         /\ tasks' = tasks \cup {startBuilding(nextId, fn, "add", fs')}
         /\ nextId' = nextId + 1
  /\ UNCHANGED <<failed, builds, initBuild, watched, written, initial, handles,
                 supVars, procState>>

\* case "function", "change": rebuild the function's build, write the result
OnFunctionChange(path) ==
  /\ FsChange("change", path)
  /\ RoutesToFunction(path)
  /\ LET name == parseFunction(path).name
     IN  IF name \in DOMAIN builds
           THEN /\ tasks' = tasks \cup {rebuild(nextId, "fnChange", name, builds[name])}
                /\ nextId' = nextId + 1
           ELSE UNCHANGED <<tasks, nextId>>
  /\ UNCHANGED <<failed, functions, builds, initBuild, watched, written, initial, handles, supVars, procState>>

\* case "function", "unlink": drop the function, dispose its build, start an
\* index build nobody awaits, stop watching its dependencies
OnFunctionUnlink(path) ==
  /\ FsChange("unlink", path)
  /\ RoutesToFunction(path)
  /\ LET name == parseFunction(path).name
     IN  /\ functions' = SelectSeq(functions, LAMBDA fn : fn.name # name)
         /\ handles' = IF name \in DOMAIN builds THEN handles \ {builds[name]}
                       ELSE handles
         /\ builds' = DeleteBuild(builds, name)
         /\ tasks' = tasks \cup {buildIndex(nextId, "none", functions', config)}
         /\ nextId' = nextId + 1
         /\ watched' = watched \ {name}
  /\ UNCHANGED <<failed, initBuild, written, initial, supVars, procState>>

\* case "init", "add": startBuildingInit, then buildIndex if it left a build
OnInitAdd(path) ==
  /\ FsChange("add", path)
  /\ isInitPath(config.functionsInitPath, path)
  /\ tasks' = tasks \cup {startBuildingInit(nextId, "initAdd", config, fs')}
  /\ nextId' = nextId + 1
  /\ UNCHANGED <<failed, functions, builds, initBuild, watched, written, initial, handles, supVars, procState>>

\* case "init", "change": rebuild the init build, write the result
OnInitChange(path) ==
  /\ FsChange("change", path)
  /\ isInitPath(config.functionsInitPath, path)
  /\ IF initBuild # 0
       THEN /\ tasks' = tasks \cup {rebuild(nextId, "initChange", InitCjs, initBuild)}
            /\ nextId' = nextId + 1
       ELSE UNCHANGED <<tasks, nextId>>
  /\ UNCHANGED <<failed, functions, builds, initBuild, watched, written, initial, handles, supVars, procState>>

\* case "init", "unlink": forget the init build, stop watching it
OnInitUnlink(path) ==
  /\ FsChange("unlink", path)
  /\ isInitPath(config.functionsInitPath, path)
  /\ initBuild' = 0
  /\ watched' = watched \ {InitCjs}
  /\ UNCHANGED <<failed, functions, builds, written, tasks, nextId, initial, handles, supVars, procState>>

\* the watchDeps callback: a dependency of unit `file` changed
OnDepsChange(file) ==
  /\ procState = "running"
  /\ events < MaxEvents
  /\ events' = events + 1
  /\ file \in watched
  /\ IF file \in DOMAIN builds
       THEN /\ tasks' = tasks \cup {rebuild(nextId, "deps", file, builds[file])}
            /\ nextId' = nextId + 1
       ELSE UNCHANGED <<tasks, nextId>>
  /\ UNCHANGED <<failed, functions, builds, initBuild, watched, written, initial, handles, supVars, procState, config, fs, subscribed, watchVars>>

\* a notification watcher.on("all") passes nothing on for: an event the
\* switch has no case for (a directory that holds no file is created or
\* removed, the watcher is ready), or a path that is neither the init path
\* nor an included function
OnDropped(event, path) ==
  /\ FsChange(event, path)
  /\ event \in {"addDir", "unlinkDir"} => path \in WatchDirs /\ ~IsDirectory(fs, path)
  /\ event = "ready" => path = Undefined
  /\ event \in RoutedEvents => path # Undefined
  /\ event \in RoutedEvents =>
       ~isInitPath(config.functionsInitPath, path) /\ ~RoutesToFunction(path)
  /\ UNCHANGED <<buildVars, supVars, procState>>

\* a call stringifyFunctionsIndex(list, buildConfig) and what it returns
Render(list, initPath, renderer) ==
  /\ procState = "running"
  /\ rendered' = [list |-> list, initPath |-> initPath, renderer |-> renderer,
                  called |-> TRUE,
                  text |-> stringifyFunctionsIndex(list,
                             [functionsInitPath |-> initPath, renderer |-> renderer])]
  /\ UNCHANGED <<buildVars, supVars, procState, config, fs, subscribed, events,
                 unreadable, listing, notified, messages, resolution>>

\* esbuild asks the resolve plugin for specifier `path` imported from a file
\* of directory resolveDir, `files` being the files that exist
Resolve(files, resolveDir, path) ==
  /\ procState = "running"
  /\ resolution' = [called |-> TRUE, files |-> files, resolveDir |-> resolveDir,
                    specifier |-> path, result |-> onResolve(files, resolveDir, path)]
  /\ UNCHANGED <<buildVars, supVars, procState, config, fs, subscribed, events,
                 unreadable, listing, notified, messages, rendered>>

(***************************************************************************)
(* The specification.                                                      *)
(***************************************************************************)
Configs ==
  {[functionsInitPath |-> ip, functionsIgnorePaths |-> {},
    onlyFunctions |-> [defined |-> FALSE, list |-> <<>>],
    renderer |-> FALSE, preset |-> pr] :
     ip \in {Undefined, FileInit}, pr \in BOOLEAN}

\* Dev.run() has returned: the signal handlers are installed, the preset's
\* child is spawned, watchListFunction awaits its first listFunctions
InitWith(cfgs) ==
  /\ config \in cfgs
  /\ fs \in {files \in SUBSET FsUniverse :
               Cardinality(files \ {config.functionsInitPath}) <= MaxInitialFiles}
  /\ subscribed = FALSE
  /\ functions = <<>>
  /\ builds = <<>>
  /\ initBuild = 0
  /\ watched = {}
  /\ written = <<>>
  /\ tasks = {}
  /\ nextId = 1
  /\ initial = [state |-> "none", pending |-> {}]
  /\ handles = {}
  /\ failed = {}
  /\ exiting = FALSE
  /\ children = IF config.preset THEN addChild(<<>>, PresetChild) ELSE <<>>
  /\ childState = [c \in Children |->
                     IF c = PresetChild /\ config.preset THEN "live" ELSE "unspawned"]
  /\ kills = [c \in Children |-> 0]
  /\ procState = "running"
  /\ signals = 0
  /\ events = 0
  /\ unreadable = {}
  /\ listing = "pending"
  /\ notified = <<>>
  /\ messages = <<>>
  /\ rendered = NoCall
  /\ resolution = NoResolution

Init == InitWith(Configs)

Next ==
  \/ Signal
  \/ \E c \in Children : ChildExit(c)
  \/ DeliverInitial
  \/ \E t \in tasks : CompileOk(t)
  \/ \E t \in tasks : CompileFail(t)
  \/ \E t \in tasks : WriteDone(t)
  \/ \E path \in FsUniverse : OnFunctionAdd(path)
  \/ \E path \in FsUniverse : OnFunctionChange(path)
  \/ \E path \in FsUniverse : OnFunctionUnlink(path)
  \/ \E path \in FsUniverse : OnInitAdd(path)
  \/ \E path \in FsUniverse : OnInitChange(path)
  \/ \E path \in FsUniverse : OnInitUnlink(path)
  \/ \E file \in watched : OnDepsChange(file)

Spec == Init /\ [][Next]_vars

\* the supervisor and the Initial handler, while the watcher reports nothing
NextSup ==
  \/ Signal
  \/ \E c \in Children : ChildExit(c)
  \/ DeliverInitial
  \/ \E t \in tasks : CompileOk(t)
  \/ \E t \in tasks : CompileFail(t)
  \/ \E t \in tasks : WriteDone(t)

SpecSup == Init /\ [][NextSup]_vars

\* the watch loop, while no termination signal arrives and no child exits
NextBuild ==
  \/ DeliverInitial
  \/ \E t \in tasks : CompileOk(t)
  \/ \E t \in tasks : CompileFail(t)
  \/ \E t \in tasks : WriteDone(t)
  \/ \E path \in FsUniverse : OnFunctionAdd(path)
  \/ \E path \in FsUniverse : OnFunctionChange(path)
  \/ \E path \in FsUniverse : OnFunctionUnlink(path)
  \/ \E path \in FsUniverse : OnInitAdd(path)
  \/ \E path \in FsUniverse : OnInitChange(path)
  \/ \E path \in FsUniverse : OnInitUnlink(path)
  \/ \E file \in watched : OnDepsChange(file)

\* a project with an init module and a framework preset
InitBuild ==
  InitWith({c \in Configs : c.functionsInitPath # Undefined /\ c.preset})

SpecBuild == InitBuild /\ [][NextBuild]_vars

\* the regular expression /b\.ts$/ of functionsIgnorePaths, as the paths it
\* matches
IgnoreB == {p \in WatchPaths : EndsWith(p, <<"b", ".", "t", "s">>)}

\* configurations with and without an init path, ignored paths and an
\* allow-list; no framework preset
WatchConfigs ==
  {[functionsInitPath |-> ip, functionsIgnorePaths |-> ig,
    onlyFunctions |-> only, renderer |-> FALSE, preset |-> FALSE] :
     ip \in {Undefined, FileInit}, ig \in {{}, {IgnoreB}},
     only \in {[defined |-> FALSE, list |-> <<>>],
               [defined |-> TRUE, list |-> << <<"a">> >>]}}

\* the children of the functions directory that may be unreadable
UnreadablePaths == {FileB, <<"s", "/", "a">>}

\* Dev.run() has returned, in a project whose functions directory holds any
\* of the paths of WatchPaths, some of them unreadable
InitWatch ==
  /\ config \in WatchConfigs
  /\ fs \in {files \in SUBSET WatchPaths : Cardinality(files) <= MaxWatchFiles}
  /\ unreadable \in SUBSET {p \in UnreadablePaths : Exists(fs, p)}
  /\ subscribed = FALSE
  /\ functions = <<>>
  /\ builds = <<>>
  /\ initBuild = 0
  /\ watched = {}
  /\ written = <<>>
  /\ tasks = {}
  /\ nextId = 1
  /\ initial = [state |-> "none", pending |-> {}]
  /\ handles = {}
  /\ failed = {}
  /\ exiting = FALSE
  /\ children = <<>>
  /\ childState = [c \in Children |-> "unspawned"]
  /\ kills = [c \in Children |-> 0]
  /\ procState = "running"
  /\ signals = 0
  /\ events = 0
  /\ listing = "pending"
  /\ notified = <<>>
  /\ messages = <<>>
  /\ rendered = NoCall
  /\ resolution = NoResolution

\* watchListFunction and the first reaction of the callback, before esbuild
\* has answered any build
NextWatch ==
  \/ DeliverInitial
  \/ ListingFails
  \/ \E path \in WatchPaths : OnFunctionAdd(path)
  \/ \E path \in WatchPaths : OnFunctionChange(path)
  \/ \E path \in WatchPaths : OnFunctionUnlink(path)
  \/ \E path \in WatchPaths : OnInitAdd(path)
  \/ \E path \in WatchPaths : OnInitChange(path)
  \/ \E path \in WatchPaths : OnInitUnlink(path)
  \/ \E event \in RoutedEvents \cup OtherEvents :
       \E path \in WatchPaths \cup WatchDirs \cup {Undefined} : OnDropped(event, path)

SpecWatch == InitWatch /\ [][NextWatch]_vars

\* the names and lists stringifyFunctionsIndex is called with
Hello == <<"h", "e", "l", "l", "o">>
Greet == <<"g", "r", "e", "e", "t">>
RenderFunctions ==
  {[name |-> n, path |-> SrcDir \o <<"/">> \o n \o DotTs] : n \in {Hello, Greet, <<"a">>}}
RenderLists ==
  UNION {[1..n -> RenderFunctions] : n \in 0..MaxListLen}

\* calls of stringifyFunctionsIndex, with every option
NextRender ==
  \E list \in RenderLists, initPath \in {Undefined, FileInit}, renderer \in BOOLEAN :
    Render(list, initPath, renderer)

SpecRender == Init /\ [][NextRender]_vars

\* calls of the resolve plugin, for every specifier in every project
NextResolve ==
  \E files \in SUBSET ModuleFiles, path \in Specifiers :
    Resolve(files, ResolveDir, path)

SpecResolve == Init /\ [][NextResolve]_vars

\* the supervisor under fair scheduling: a build or a write in flight ends,
\* the first listing ends, and a child that was sent a signal exits
TaskStep == \E t \in tasks : CompileOk(t) \/ CompileFail(t) \/ WriteDone(t)

SignalledChildExit(c) == kills[c] > 0 /\ ChildExit(c)

\* the step that delivers Initial, told by its effect on `subscribed`
Subscribes == procState = "running" /\ ~subscribed /\ subscribed' = TRUE

SpecLive ==
  /\ Init
  /\ [][NextSup]_vars
  /\ WF_subscribed(Subscribes)
  /\ WF_vars(TaskStep)
  /\ \A c \in Children : WF_vars(SignalledChildExit(c))

(***************************************************************************)
(* The process supervisor's claims.                                        *)
(***************************************************************************)
\* C1: the process exits with status 0 only when a termination signal has been
\* received and no child is live; a signal that finds no child exits at once;
\* a child's exit before any signal neither ends the process nor removes a
\* sibling from the list
C1_ExitOnlyWhenDrained ==
  [][ /\ (procState = "running" /\ procState' = "exited") =>
           (exiting' /\ children' = <<>> /\ \A c \in Children : childState'[c] # "live")
      /\ (signals' > signals /\ children = <<>>) => procState' = "exited"
      /\ (signals' > signals /\ children # <<>>) => procState' = "running"
      /\ \A c \in Children :
           (childState[c] = "live" /\ childState'[c] = "exited" /\ ~exiting) =>
             /\ procState' = "running"
             /\ Range(children') = Range(children) \ {c}
    ]_vars

\* the process has exited after both children were spawned, signalled and gone
C1_Witness ==
  /\ procState = "exited"
  /\ \A c \in Children : childState[c] = "exited"

\* C2: after a termination signal no child is spawned or added to the list
C2_NoSpawnWhileDraining ==
  [][ exiting =>
        /\ \A c \in Children : childState'[c] = "live" => childState[c] = "live"
        /\ Range(children') \subseteq Range(children)
    ]_vars

\* C3: after a termination signal the process eventually ends (children that
\* were forwarded the signal exit, builds in flight end).  Ending by an
\* unhandled rejection is counted as ending, so that only a process that
\* keeps running refutes the claim.
C3_SignalLeadsToExit ==
  (exiting /\ procState = "running") ~> (procState # "running")

\* C4: a child that was forwarded a signal is not forwarded another one
C4_NoDoubleForward ==
  [][ \A c \in Children : kills[c] > 0 => kills'[c] = kills[c] ]_vars

\* C5: the list holds exactly the children spawned and not yet exited, each
\* once, a child's exit removes that child and no other, and a signal is
\* forwarded to live children only
C5_LiveSetExact ==
  [][ /\ Range(children') = {c \in Children : childState'[c] = "live"}
      /\ Len(children') = Cardinality(Range(children'))
      /\ \A c \in Children :
           (childState[c] = "live" /\ childState'[c] = "exited") =>
             Range(children') = Range(children) \ {c}
      /\ \A c \in Children : kills'[c] > kills[c] => childState[c] = "live"
    ]_vars

\* a second signal was forwarded to the emulator after the preset's child,
\* which had been forwarded the first, exited
C5_Witness ==
  /\ childState[PresetChild] = "exited"
  /\ kills[PresetChild] = 1
  /\ kills[FirebaseChild] = 2

(***************************************************************************)
(* The build units' claims.                                                *)
(***************************************************************************)
\* no handler of the watch callback is in flight
Quiescent == subscribed /\ tasks = {} /\ procState = "running"

\* C6: when no handler is in flight the keys of `builds` are the names of
\* `functions` (stated for runs in which no build was rejected)
C6_UnitPerFunction ==
  (Quiescent /\ failed = {}) => DOMAIN builds = Names(functions)

RebuildKinds == {"fnChange", "initChange", "deps"}

\* the rebuild() calls in flight on handle h
RebuildsInFlight(h) ==
  {t \in tasks : t.kind \in RebuildKinds /\ t.phase = "compile" /\ t.handle = h}

\* C7: at most one rebuild() is in flight per build unit
C7_NoOverlappingRebuilds ==
  \A t \in tasks : Cardinality(RebuildsInFlight(t.handle)) <= 1

\* C8: a step in which a build or rebuild is rejected writes no file and
\* leaves the stored handles and the function list as they were
C8_FailedBuildWritesNothing ==
  [][ failed' # failed => UNCHANGED <<written, builds, initBuild, functions>> ]_vars

\* a rebuild of a function was rejected and the artifact its handle wrote
\* before is still the file's content
C8_Witness ==
  \E t \in failed :
    /\ t.kind = "fnChange"
    /\ t.name \in DOMAIN builds
    /\ builds[t.name] = t.handle
    /\ t.name \o DotCjs \in DOMAIN written
    /\ written[t.name \o DotCjs].handle = t.handle
    /\ written[t.name \o DotCjs].by # t.id

\* C9: when no handler is in flight, index.cjs holds the rendering of the
\* current function list (stated for runs in which no build was rejected)
C9_IndexConsistent ==
  (Quiescent /\ failed = {}) =>
    /\ IndexCjs \in DOMAIN written
    /\ written[IndexCjs].text = stringifyFunctionsIndex(functions, config)

\* C10: no two entries of the function list have the same name
C10_UniqueNames ==
  \A i, j \in 1..Len(functions) :
    i # j => functions[i].name # functions[j].name

(***************************************************************************)
(* The watcher's and the classifier's claims.                              *)
(***************************************************************************)
\* C11: the first message the callback is given is Initial, carrying what
\* listFunctions returns for the files of that moment; every later message is
\* a function or an init message, so Initial is given exactly once
C11_InitialFirstAndOnce ==
  [][ messages' # messages =>
        IF messages = <<>>
          THEN messages' = <<InitialMessage(listFunctions(config, fs))>>
          ELSE /\ Len(messages') = Len(messages) + 1
               /\ SubSeq(messages', 1, Len(messages)) = messages
               /\ messages'[Len(messages')].type \in {"function", "init"}
    ]_vars

\* Initial carried a function and a function message followed it
C11_Witness ==
  /\ Len(messages) >= 2
  /\ messages[1].type = "initial"
  /\ messages[1].functions # <<>>
  /\ messages[2].type = "function"

\* C12: for a path under the functions directory the classifier yields the
\* file stem for a script file directly in the directory, the directory name
\* for an index file one directory down, and nothing for a path two or more
\* directories down and for a path without a script extension
C12_PathClassification ==
  \A i \in 1..Len(notified) :
    LET n == notified[i]
    IN  ( /\ n.event \in RoutedEvents
          /\ ~isInitPath(config.functionsInitPath, n.path)
          /\ StartsWith(n.path, SrcDir \o <<"/">>) ) =>
        LET segs   == SplitPath(SubSeq(n.path, Len(SrcDir) + 2, Len(n.path)))
            last   == segs[Len(segs)]
            exts   == {e \in {DotTs, DotJs, DotTsx, DotJsx} :
                         EndsWith(last, e) /\ Len(last) > Len(e)}
            stem   == LET e == CHOOSE x \in exts : TRUE
                      IN  SubSeq(last, 1, Len(last) - Len(e))
            isIdx  == exts # {} /\ stem = IndexStem
        IN  /\ (Len(segs) = 1 /\ exts # {}) =>
                  n.fn = [name |-> stem, path |-> n.path]
            /\ (Len(segs) = 2 /\ isIdx) =>
                  n.fn = [name |-> segs[1], path |-> n.path]
            /\ (Len(segs) >= 3 \/ exts = {}) => n.fn = NoFunction

\* the classifier was given a flat file or an index file one directory down,
\* and an index file two directories down
C12_Witness ==
  /\ \E i \in 1..Len(notified) :
       /\ notified[i].path \in {FileA, FileAIndex}
       /\ notified[i].fn.name = <<"a">>
  /\ \E i \in 1..Len(notified) :
       /\ notified[i].path = FileDeep
       /\ notified[i].event \in RoutedEvents
       /\ notified[i].fn = NoFunction

\* C13: the index file of the functions directory itself is no function for
\* the classifier and no function for listFunctions
C13_RootIndexNotFunction ==
  /\ \A i \in 1..Len(notified) :
       notified[i].path = FileRootIndex => notified[i].fn = NoFunction
  /\ \A i \in 1..Len(messages) :
       \A k \in 1..Len(messages[i].functions) :
         messages[i].functions[k].path # FileRootIndex

\* C14: the init path is never a function: Initial carries no function whose
\* path is the init path, no function message is for the init path, and a
\* routed notification for the init path gives an init message of its kind
C14_InitPathNeverFunction ==
  [][ /\ \A i \in 1..Len(messages') :
           /\ ~isInitPath(config.functionsInitPath, messages'[i].function.path)
           /\ \A k \in 1..Len(messages'[i].functions) :
                ~isInitPath(config.functionsInitPath, messages'[i].functions[k].path)
      /\ \A event \in RoutedEvents :
           ( /\ Len(notified') = Len(notified) + 1
             /\ notified'[Len(notified')].event = event
             /\ isInitPath(config.functionsInitPath, notified'[Len(notified')].path) ) =>
           messages' = Append(messages, InitMessage(event))
    ]_vars

\* the init file existed when the functions were listed next to a function,
\* and a change of it gave an init message
C14_Witness ==
  /\ config.functionsInitPath = FileInit
  /\ Len(messages) >= 2
  /\ messages[1].functions # <<>>
  /\ notified[1] = [event |-> "change", path |-> FileInit, fn |-> NoFunction]
  /\ messages[2] = InitMessage("change")

\* C15: a child of the functions directory that cannot be read is skipped:
\* the first listing ends by delivering Initial with the functions of the
\* children that can be read
C15_DiscoverToleratesErrors ==
  [][ (listing = "pending" /\ listing' # "pending") =>
        /\ listing' = "resolved"
        /\ messages' = <<InitialMessage(listFunctions(config,
              {f \in fs : \A b \in unreadable :
                            f # b /\ ~StartsWith(f, b \o <<"/">>)}))>>
    ]_vars

\* C16: a function message names a function as Initial named the function
\* of the same path
C16_SameNameFromBothProducers ==
  \A i, j \in 1..Len(messages) :
    \A k \in 1..Len(messages[i].functions) :
      (messages[j].type = "function"
         /\ messages[j].function.path = messages[i].functions[k].path) =>
        messages[j].function.name = messages[i].functions[k].name

\* C17: the index is the import of the init module when an init path is
\* given, then one export line per function of the list in the list's order
\* with the function's name as module and as binding, then the export of the
\* renderer when asked for; for [hello, greet] and nothing else it is the two
\* export lines of hello and greet
C17_RenderedIndex ==
  rendered.called =>
    LET pre  == IF rendered.initPath # Undefined THEN 1 ELSE 0
        post == IF rendered.renderer THEN 1 ELSE 0
        n    == Len(rendered.list)
        text == rendered.text
    IN  /\ Len(text) = pre + n + post
        /\ pre = 1 => text[1] = <<"import \"./init.cjs\";">>
        /\ \A i \in 1..n :
             text[pre + i] = <<"export { default as ">> \o rendered.list[i].name
                               \o <<" } from \"./">> \o rendered.list[i].name
                               \o <<".cjs\";">>
        /\ post = 1 =>
             text[Len(text)] = <<"export { default as renderer } from \"./renderer\";">>
        /\ ( /\ pre = 0
             /\ post = 0
             /\ n = 2
             /\ rendered.list[1].name = Hello
             /\ rendered.list[2].name = Greet ) =>
             text = << <<"export { default as ", "h", "e", "l", "l", "o",
                         " } from \"./", "h", "e", "l", "l", "o", ".cjs\";">>,
                       <<"export { default as ", "g", "r", "e", "e", "t",
                         " } from \"./", "g", "r", "e", "e", "t", ".cjs\";">> >>

\* the index of [hello, greet] without init path and renderer was rendered
C17_Witness ==
  /\ rendered.called
  /\ rendered.initPath = Undefined
  /\ ~rendered.renderer
  /\ Len(rendered.list) = 2
  /\ rendered.list[1].name = Hello
  /\ rendered.list[2].name = Greet
  /\ Len(rendered.text) = 2

\* C18: a rejected build stays with its unit: the process keeps running and,
\* once every build the Initial handler started has ended, the emulator child
\* has been spawned
C18_BuildErrorIsolated ==
  /\ procState # "crashed"
  /\ (initial.state # "none" /\ initial.pending = {}) =>
       childState[FirebaseChild] # "unspawned"

\* C19: every handle acquired and not disposed is the handle of a unit: the
\* init build or an entry of `builds`
C19_HandlesReleased ==
  handles \subseteq ({builds[n] : n \in DOMAIN builds} \cup {initBuild})

\* C20: a notification gives at most one message, of the notification's
\* kind: an init message for the init path, otherwise a function message when
\* the path classifies to a function that no ignore pattern matches and that
\* is in the allow-list if there is one; anything else gives no message
C20_RouterMapping ==
  [][ Len(notified') = Len(notified) + 1 =>
        LET n == notified'[Len(notified')]
        IN  messages' = messages \o
              ( IF n.event \notin {"add", "change", "unlink"} THEN <<>>
                ELSE IF isInitPath(config.functionsInitPath, n.path)
                  THEN <<InitMessage(n.event)>>
                ELSE IF /\ n.fn # NoFunction
                        /\ \A regex \in config.functionsIgnorePaths : n.fn.path \notin regex
                        /\ config.onlyFunctions.defined =>
                             n.fn.name \in Range(config.onlyFunctions.list)
                  THEN <<FunctionMessage(n.event, n.fn)>>
                ELSE <<>> )
    ]_vars

\* with an ignore pattern configured, a notification for an ignored function
\* file gave no message and one for another function gave a function message
C20_Witness ==
  /\ IgnoreB \in config.functionsIgnorePaths
  /\ Len(notified) = 2
  /\ notified[1].path = FileB
  /\ notified[1].fn # NoFunction
  /\ Len(messages) = 2
  /\ messages[2].type = "function"
  /\ messages[2].event = notified[2].event

(***************************************************************************)
(* The resolve plugin's claim.                                             *)
(***************************************************************************)
\* C21: a specifier is marked external without the resolver being asked
\* exactly when it is the name of a builtin module; any other specifier is
\* resolved, and is external exactly when the resolved path lies under a
\* node_modules directory; a specifier that cannot be resolved is rejected
\* with an error that names the specifier and the directory
C21_ResolverMapping ==
  resolution.called =>
    LET r == resolution.result
        dirs == SplitPath(parsePath(r.path).dir)
    IN  /\ (~r.asked /\ r.external) <=> resolution.specifier \in BuiltinModules
        /\ resolution.specifier \notin BuiltinModules =>
             /\ r.asked
             /\ r.settled = "resolved" =>
                  /\ r.path \in resolution.files
                  /\ r.external <=> (\E i \in 1..Len(dirs) : dirs[i] = NodeModules)
             /\ r.settled = "rejected" =>
                  /\ Includes(r.error, resolution.specifier)
                  /\ Includes(r.error, resolution.resolveDir)

(***************************************************************************)
(* The index and the emulator.                                             *)
(***************************************************************************)
\* C22: when no handler is in flight, every export line of the index file
\* written last names a function whose file <name>.cjs has been written
C22_IndexReferencesBuilt ==
  (Quiescent /\ IndexCjs \in DOMAIN written) =>
    LET text == written[IndexCjs].text
    IN  \A i \in 1..Len(text) :
          text[i][1] = "export { default as " =>
            \E f \in DOMAIN written :
              /\ EndsWith(f, DotCjs)
              /\ LET name == SubSeq(f, 1, Len(f) - Len(DotCjs))
                 IN  text[i] = <<"export { default as ">> \o name
                                 \o <<" } from \"./">> \o name \o <<".cjs\";">>

\* C23: the emulator child is spawned in a step after which the Initial
\* handler's builds have all ended, none of them rejected, and the init
\* module, every function Initial carried and the index are written; once
\* spawned it is not spawned again
C23_EmulatorAfterInitialBuilds ==
  [][ /\ (childState[FirebaseChild] = "unspawned"
            /\ childState'[FirebaseChild] # "unspawned") =>
           /\ initial'.state = "resolved"
           /\ initial'.pending = {}
           /\ \A t \in tasks' \cup failed' : t.owner # "initial"
           /\ IndexCjs \in DOMAIN written'
           /\ config.functionsInitPath # Undefined => InitCjs \in DOMAIN written'
           /\ messages' # <<>>
           /\ \A k \in 1..Len(messages'[1].functions) :
                messages'[1].functions[k].name \o DotCjs \in DOMAIN written'
      /\ childState[FirebaseChild] # "unspawned" =>
           /\ childState'[FirebaseChild] = "live" => childState[FirebaseChild] = "live"
           /\ Cardinality({i \in 1..Len(children') : children'[i] = FirebaseChild})
                <= Cardinality({i \in 1..Len(children) : children[i] = FirebaseChild})
    ]_vars

\* the emulator runs after the init module, a function and the index were
\* built and written
C23_Witness ==
  /\ childState[FirebaseChild] = "live"
  /\ config.functionsInitPath # Undefined
  /\ messages # <<>>
  /\ messages[1].functions # <<>>
  /\ {InitCjs, IndexCjs} \subseteq DOMAIN written

=============================================================================
